---- MODULE Spec2Model ----
(***************************************************************************)
(* Model of grr/gui/api_plugins/client.py: client search (unrestricted and *)
(* label-restricted), the add-labels and remove-labels handlers over the   *)
(* legacy (AFF4) and relational stores (alone, failing, with invalid ids,  *)
(* and two at a time), the client load stats handler, the metadata fields  *)
(* of client records, and the construction of client identifiers.          *)
(*                                                                         *)
(* Client identifiers "C.<16 hex digits>" have a fixed length, so their    *)
(* string order is modelled by the order of the integers 1..NumClients.    *)
(***************************************************************************)
EXTENDS Integers, Sequences, FiniteSets, TLC

\* ---------------------------------------------------------------- bounds
NumClients == 3
MaxLabels == 3
MaxOffset == 2
MaxCount == 2

\* sys.maxint stands for "no upper limit"; any value above every list length
\* of the model behaves as it does.
MaxInt == 1000000

Clients == 1..NumClients
Names == {"A", "B"}
Users == {"u1", "u2"}
SystemOwner == "GRR"
Owners == Users \cup {SystemOwner}
Label == [name : Names, owner : Owners]
UserLabel == [name : Names, owner : Users]

VARIABLES
  relRead,       \* data_store.RelationalDBReadEnabled()
  relWrite,      \* data_store.RelationalDBWriteEnabled()
  relKnown,      \* clients the relational store has a record of
  legacyLabels,  \* AFF4 label store: client -> set of labels
  relLabels,     \* REL_DB label store: client -> set of labels
  legacyIndex,   \* AFF4 keyword index: set of <<keyword, client>>
  relIndex,      \* relational keyword index: set of <<keyword, client>>
  statValues,    \* stored ClientStats snapshots, as GetValuesForAttribute yields them
  clientData,    \* the stored metadata of the client a record is built from
  clientId,      \* an ApiClientId: its initializer, and its value once constructed
  procs,         \* two label requests that run concurrently: where each one is
  req,           \* the request being answered
  resp,          \* its response
  hist           \* what the previous requests were (for sequences of requests)

vars == <<relRead, relWrite, relKnown, legacyLabels, relLabels, legacyIndex,
          relIndex, statValues, clientData, clientId, procs, req, resp, hist>>

NoReq == [op |-> "none"]
NoResp == [kind |-> "none"]
NoHist == [phase |-> "none"]
NoData == [kind |-> "none"]
NoId == [state |-> "none"]
NoProcs == [kind |-> "none"]

\* ------------------------------------------------------------- utilities
Min(a, b) == IF a < b THEN a ELSE b

SetMin(S) == CHOOSE x \in S : \A y \in S : x <= y

RECURSIVE SortedSeq(_)
\* sorted(S): the ascending sequence of the elements of S
SortedSeq(S) ==
  IF S = {} THEN <<>> ELSE <<SetMin(S)>> \o SortedSeq(S \ {SetMin(S)})

\* the sequences that list every element of S once (an unspecified iteration order)
Orders(S) ==
  {f \in [1..Cardinality(S) -> S] : \A i, j \in 1..Cardinality(S) : f[i] = f[j] => i = j}

Range(f) == {f[i] : i \in DOMAIN f}

\* Python's seq[lo:hi] for 0 <= lo, 0 <= hi
Slice(s, lo, hi) == SubSeq(s, lo + 1, Min(hi, Len(s)))

\* "label:" + name
LabelKeyword(n) == "label:" \o n

HostKeyword == "host"

\* ---------------------------------------------------------- keyword index
\* ClientIndex.LookupClients: the clients that carry every keyword
LookupClients(index, keywords) ==
  {c \in Clients : \A i \in 1..Len(keywords) : <<keywords[i], c>> \in index}

\* REL_DB.MultiReadClientFullInfo: a dict keyed by the known client ids
MultiReadClientFullInfo(ids) == ids \cap relKnown

\* the keywords AddClient derives from a client object: its attributes and its labels
ClientKeywords(c, labels) ==
  {<<HostKeyword, c>>} \cup {<<LabelKeyword(l.name), c>> : l \in labels}

\* ---------------------------------------------------------------- search
\* ApiSearchClientsHandler.Handle, the slice both branches take
SearchPage(index, keywords, offset, count) ==
  LET end == IF count # 0 THEN count ELSE MaxInt
  IN  Slice(SortedSeq(LookupClients(index, keywords)), offset, offset + end)

\* the relational branch: the page is read into a dict and the dict's values
\* are appended in the dict's iteration order
SearchRelItems(keywords, offset, count) ==
  Orders(MultiReadClientFullInfo(Range(SearchPage(relIndex, keywords, offset, count))))

\* the legacy branch: MultiOpen yields the objects in its own order, and the
\* handler sorts them
SearchLegacyItems(keywords, offset, count) ==
  {SortedSeq(Range(opened)) :
     opened \in Orders(Range(SearchPage(legacyIndex, keywords, offset, count)))}

\* _CheckClientLabels / _VerifyLabels: one label passes both whitelists
VerifyLabelsSplit(labels, wlNames, wlOwners) ==
  /\ \E l \in labels : l.name \in wlNames
  /\ \E l \in labels : l.owner \in wlOwners

VerifyLabels(labels, wlNames, wlOwners) ==
  \E l \in labels : l.name \in wlNames /\ l.owner \in wlOwners

\* the coarse step: the union over the whitelisted names of the index lookups
Candidates(index, keywords, wlNames) ==
  UNION {LookupClients(index, <<LabelKeyword(n)>> \o keywords) : n \in wlNames}

RECURSIVE RestrictedLoop(_, _, _, _, _, _, _, _, _)
\* the loop over the candidates: i is the position in objs, index the number
\* of verified candidates seen so far
RestrictedLoop(objs, labelsOf, wlNames, wlOwners, offset, end, i, index, acc) ==
  IF i > Len(objs) THEN acc
  ELSE IF ~VerifyLabels(labelsOf[objs[i]], wlNames, wlOwners)
       THEN RestrictedLoop(objs, labelsOf, wlNames, wlOwners, offset, end, i + 1, index, acc)
       ELSE LET acc2 == IF index >= offset /\ index < end
                        THEN Append(acc, objs[i]) ELSE acc
            IN  IF index + 1 >= end THEN acc2
                ELSE RestrictedLoop(objs, labelsOf, wlNames, wlOwners, offset, end,
                                    i + 1, index + 1, acc2)

RestrictedEnd(offset, count) == IF count # 0 THEN offset + count ELSE MaxInt

\* relational branch: sorted(client_infos.items())
RestrictedRelItems(keywords, offset, count, wlNames, wlOwners) ==
  {RestrictedLoop(
     SortedSeq(MultiReadClientFullInfo(Candidates(relIndex, keywords, wlNames))),
     relLabels, wlNames, wlOwners, offset, RestrictedEnd(offset, count), 1, 0, <<>>)}

\* what aff4.FACTORY.MultiOpen yields for a sorted list of urns: the objects,
\* in an order of its own
MultiOpen(urns) == Orders(Range(urns))

\* legacy branch: MultiOpen(sorted(all_urns, key=str)), iterated as yielded
RestrictedLegacyItems(keywords, offset, count, wlNames, wlOwners) ==
  {RestrictedLoop(objs, legacyLabels, wlNames, wlOwners, offset,
                  RestrictedEnd(offset, count), 1, 0, <<>>) :
     objs \in MultiOpen(SortedSeq(Candidates(legacyIndex, keywords, wlNames)))}

Queries == {<<>>, <<"label:B">>, <<"host", "label:A">>}

\* the index both stores keep for a label assignment
IndexOf(labels) == UNION {ClientKeywords(c, labels[c]) : c \in Clients}

LabelCount(labels) == Cardinality({<<c, l>> \in Clients \X UserLabel : l \in labels[c]})

InitSearch ==
  /\ relRead \in BOOLEAN
  /\ relWrite = FALSE
  /\ relKnown = Clients
  /\ legacyLabels \in {f \in [Clients -> SUBSET UserLabel] : LabelCount(f) <= MaxLabels}
  /\ relLabels = legacyLabels
  /\ legacyIndex = IndexOf(legacyLabels)
  /\ relIndex = legacyIndex
  /\ statValues = <<>>
  /\ clientData = NoData
  /\ clientId = NoId
  /\ procs = NoProcs
  /\ req = NoReq
  /\ resp = NoResp
  /\ hist = NoHist

\* an unrestricted search request (one request is answered per behaviour)
SearchClients ==
  /\ req = NoReq
  /\ \E keywords \in Queries, offset \in 0..MaxOffset, count \in 0..MaxCount :
       /\ req' = [op |-> "search", keywords |-> keywords, offset |-> offset, count |-> count]
       /\ \E items \in (IF relRead THEN SearchRelItems(keywords, offset, count)
                                   ELSE SearchLegacyItems(keywords, offset, count)) :
            resp' = [kind |-> "search", items |-> items]
  /\ UNCHANGED <<relRead, relWrite, relKnown, legacyLabels, relLabels, legacyIndex,
                 relIndex, statValues, clientData, clientId, procs, hist>>

\* a label-restricted search request of a handler with the given whitelists
LabelsRestrictedSearchClients ==
  /\ req = NoReq
  /\ \E keywords \in Queries, offset \in 0..MaxOffset, count \in 0..MaxCount,
        wlNames \in SUBSET Names, wlOwners \in SUBSET Users :
       /\ req' = [op |-> "restricted", keywords |-> keywords, offset |-> offset,
                  count |-> count, wlNames |-> wlNames, wlOwners |-> wlOwners]
       /\ \E items \in (IF relRead
                        THEN RestrictedRelItems(keywords, offset, count, wlNames, wlOwners)
                        ELSE RestrictedLegacyItems(keywords, offset, count, wlNames, wlOwners)) :
            resp' = [kind |-> "restricted", items |-> items]
  /\ UNCHANGED <<relRead, relWrite, relKnown, legacyLabels, relLabels, legacyIndex,
                 relIndex, statValues, clientData, clientId, procs, hist>>

NextSearch == SearchClients \/ LabelsRestrictedSearchClients

SpecSearch == InitSearch /\ [][NextSearch]_vars

\* ------------------------------------------------------- label mutation
MaxTargets == 2
MaxOps == 3
\* the number of completed requests that may precede a failing one
MaxFailPrefix == 1

\* the clients a label request may name
Targets == 1..Min(MaxTargets, NumClients)

\* the four persistent collections, as one value
Store == [ll |-> legacyLabels, rl |-> relLabels, li |-> legacyIndex, ri |-> relIndex]

LabelsOf(names, owner) == {[name |-> n, owner |-> owner] : n \in names}

NamesOf(labels) == {l.name : l \in labels}

\* REL_DB.AddClientLabels for a client the store knows
RelAddClientLabels(rl, c, owner, names) ==
  [rl EXCEPT ![c] = @ \cup LabelsOf(names, owner)]

\* REL_DB.RemoveClientLabels: deletes the owner's labels of these names
RelRemoveClientLabels(rl, c, owner, names) ==
  [rl EXCEPT ![c] = @ \ LabelsOf(names, owner)]

\* REL_DB.ReadClientLabels
ReadClientLabels(rl, c) == rl[c]

\* ClientIndex.AddClientLabels (relational index)
IdxAddClientLabels(ri, c, names) == ri \cup {<<LabelKeyword(n), c>> : n \in names}

\* ClientIndex.RemoveClientLabels(cid, names) (relational index)
IdxRemoveClientLabels(ri, c, names) == ri \ {<<LabelKeyword(n), c>> : n \in names}

\* VFSGRRClient.AddLabels: the owner is the token's user
Aff4AddLabels(labels, names, owner) == labels \cup LabelsOf(names, owner)

\* VFSGRRClient.RemoveLabels(names, owner=owner)
Aff4RemoveLabels(labels, names, owner) == labels \ LabelsOf(names, owner)

\* AFF4 index.RemoveClientLabels(client): drops the label keywords of the
\* labels the client object holds
LegacyIndexRemoveClientLabels(li, c, labels) ==
  li \ {<<LabelKeyword(n), c>> : n \in NamesOf(labels)}

\* AFF4 index.AddClient(client): adds the keywords of the client object
LegacyIndexAddClient(li, c, labels) == li \cup ClientKeywords(c, labels)

\* ApiRemoveClientsLabelsHandler.RemoveClientLabels, first loop
AffectedOwnersAny(labels, names) ==
  {l.owner : l \in {x \in labels : x.name \in names}}

AffectedOwners(labels, names) ==
  {l.owner : l \in {x \in labels : x.name \in names /\ x.owner # SystemOwner}}

RECURSIVE RemoveForOwners(_, _, _)
\* ... second loop: client.RemoveLabels(labels_names, owner=owner) per owner
RemoveForOwners(labels, names, owners) ==
  IF owners = {} THEN labels
  ELSE LET o == CHOOSE x \in owners : TRUE
       IN  RemoveForOwners(Aff4RemoveLabels(labels, names, o), names, owners \ {o})

RemoveClientLabels(labels, names) ==
  RemoveForOwners(labels, names, AffectedOwners(labels, names))

\* labels_to_remove: the requested names no remaining label carries
LabelsToRemoveAll(names, existing) == names

LabelsToRemove(names, existing) == names \ NamesOf(existing)

\* the storage calls the add handler makes for one client, in order
AddSteps ==
  IF relWrite THEN <<"rel_add", "idx_add", "add_labels", "index_add", "close">>
  ELSE <<"add_labels", "index_add", "close">>

AddStep(S, step, c, user, names) ==
  CASE step = "rel_add" -> [S EXCEPT !.rl = RelAddClientLabels(S.rl, c, user, names)]
    [] step = "idx_add" -> [S EXCEPT !.ri = IdxAddClientLabels(S.ri, c, names)]
    [] step = "add_labels" -> [S EXCEPT !.ll[c] = Aff4AddLabels(S.ll[c], names, user)]
    [] step = "index_add" -> [S EXCEPT !.li = LegacyIndexAddClient(S.li, c, S.ll[c])]
    [] OTHER -> S

RECURSIVE AddClient(_, _, _, _, _, _)
\* the body of the add handler's loop for client c from step k on; failStep
\* is the step at which the storage raises (0: none). UnknownClientError of
\* REL_DB.AddClientLabels is caught and the index step skipped.
AddClient(S, c, user, names, k, failStep) ==
  IF k > Len(AddSteps) THEN [S |-> S, raised |-> FALSE]
  ELSE IF k = failStep THEN [S |-> S, raised |-> TRUE]
  ELSE IF AddSteps[k] = "rel_add" /\ c \notin relKnown
       THEN AddClient(S, c, user, names, k + 2, failStep)
       ELSE AddClient(AddStep(S, AddSteps[k], c, user, names), c, user, names,
                      k + 1, failStep)

\* the storage calls the remove handler makes for one client, in order
RemoveSteps ==
  IF relWrite
  THEN <<"rel_remove", "rel_read", "idx_remove", "index_remove", "remove_labels",
         "index_add", "close">>
  ELSE <<"index_remove", "remove_labels", "index_add", "close">>

RemoveStep(S, step, c, user, names) ==
  CASE step = "rel_remove" -> [S EXCEPT !.rl = RelRemoveClientLabels(S.rl, c, user, names)]
    [] step = "idx_remove" ->
         [S EXCEPT !.ri = IdxRemoveClientLabels(
                             S.ri, c, LabelsToRemove(names, ReadClientLabels(S.rl, c)))]
    [] step = "index_remove" ->
         [S EXCEPT !.li = LegacyIndexRemoveClientLabels(S.li, c, S.ll[c])]
    [] step = "remove_labels" -> [S EXCEPT !.ll[c] = RemoveClientLabels(S.ll[c], names)]
    [] step = "index_add" -> [S EXCEPT !.li = LegacyIndexAddClient(S.li, c, S.ll[c])]
    [] OTHER -> S

\* self.RemoveClientLabels makes one client.RemoveLabels call per affected
\* owner, in the iteration order of a set: done lists the owners whose call
\* completed before the one that raises. That call is made when done holds
\* affected owners only and another affected owner is left.
RemoveLabelsCallMade(labels, names, done) ==
  /\ Range(done) \subseteq AffectedOwners(labels, names)
  /\ Range(done) # AffectedOwners(labels, names)

RECURSIVE RemoveClient(_, _, _, _, _, _, _)
\* the body of the remove handler's loop for client c from step k on; the
\* relational index is called only when labels_to_remove is not empty. A
\* failing point at a call the handler does not make raises nothing.
RemoveClient(S, c, user, names, k, failStep, done) ==
  IF k > Len(RemoveSteps) THEN [S |-> S, raised |-> FALSE]
  ELSE IF RemoveSteps[k] = "idx_remove"
          /\ LabelsToRemove(names, ReadClientLabels(S.rl, c)) = {}
       THEN RemoveClient(S, c, user, names, k + 1, failStep, done)
  ELSE IF k = failStep /\ (RemoveSteps[k] # "remove_labels" \/ done = <<>>)
       THEN [S |-> S, raised |-> TRUE]
  ELSE IF k = failStep /\ RemoveLabelsCallMade(S.ll[c], names, done)
       THEN [S |-> [S EXCEPT !.ll[c] = RemoveForOwners(S.ll[c], names, Range(done))],
             raised |-> TRUE]
  ELSE RemoveClient(RemoveStep(S, RemoveSteps[k], c, user, names), c, user, names,
                    k + 1, failStep, done)

NoFail == [pos |-> 0, step |-> 0, done |-> <<>>]

\* the owners whose client.RemoveLabels call may have completed when a later
\* one raises: some owners, not all, in any order
DoneOrders == UNION {Orders(U) : U \in (SUBSET Users) \ {{}, Users}}

\* where the storage may raise during a request over the clients of order:
\* before the loop (pos 0: step 1 CreateClientIndex, step 2 MultiOpen), at
\* step s of the pos-th client, or inside self.RemoveClientLabels of the
\* pos-th client after the RemoveLabels calls for the owners of done
Fails(order, steps) ==
  {[pos |-> 0, step |-> s, done |-> <<>>] : s \in 1..2}
    \cup {[pos |-> i, step |-> s, done |-> <<>>] :
            i \in 1..Len(order), s \in 1..Len(steps)}
    \cup {[pos |-> i, step |-> s, done |-> d] :
            i \in 1..Len(order),
            s \in {t \in 1..Len(steps) : steps[t] = "remove_labels"},
            d \in DoneOrders}

RECURSIVE AddLoop(_, _, _, _, _, _, _)
\* "for client_obj in client_objs" of the add handler: audit is the list of
\* audit events appended so far
AddLoop(S, order, i, user, names, fail, audit) ==
  IF i > Len(order) THEN [S |-> S, raised |-> FALSE, audit |-> audit]
  ELSE LET r == AddClient(S, order[i], user, names, 1,
                          IF fail.pos = i THEN fail.step ELSE 0)
       IN  IF r.raised THEN [S |-> r.S, raised |-> TRUE, audit |-> audit]
           ELSE AddLoop(r.S, order, i + 1, user, names, fail, Append(audit, order[i]))

RECURSIVE RemoveLoop(_, _, _, _, _, _, _)
\* "for client_obj in client_objs" of the remove handler
RemoveLoop(S, order, i, user, names, fail, audit) ==
  IF i > Len(order) THEN [S |-> S, raised |-> FALSE, audit |-> audit]
  ELSE LET r == RemoveClient(S, order[i], user, names, 1,
                             IF fail.pos = i THEN fail.step ELSE 0, fail.done)
       IN  IF r.raised THEN [S |-> r.S, raised |-> TRUE, audit |-> audit]
           ELSE RemoveLoop(r.S, order, i + 1, user, names, fail, Append(audit, order[i]))

\* a handler whose publish follows the try statement instead of being its
\* finally clause
PublishAfterTry ==
  [try |-> <<"create_index", "multi_open", "add_loop">>,
   finally |-> <<>>,
   after |-> <<"publish">>]

\* the statements of the add handler's body: a try statement whose block
\* creates the index, opens the clients and loops over them, and whose finally
\* clause publishes the audit events; no statement follows it
AddBody ==
  [try |-> <<"create_index", "multi_open", "add_loop">>,
   finally |-> <<"publish">>,
   after |-> <<>>]

\* the statements of the remove handler's body
RemoveBody ==
  [try |-> <<"create_index", "multi_open", "remove_loop">>,
   finally |-> <<"publish">>,
   after |-> <<>>]

\* one statement of a handler, run on st: the stores, the audit events
\* appended so far, whether an exception was raised, the number of calls of
\* PublishMultipleEvents and the audit events it received
RunStatement(stmt, st, order, user, names, fail) ==
  CASE stmt = "create_index" ->
         IF fail.pos = 0 /\ fail.step = 1 THEN [st EXCEPT !.raised = TRUE] ELSE st
    [] stmt = "multi_open" ->
         IF fail.pos = 0 /\ fail.step = 2 THEN [st EXCEPT !.raised = TRUE] ELSE st
    [] stmt = "add_loop" ->
         LET r == AddLoop(st.S, order, 1, user, names, fail, st.audit)
         IN  [st EXCEPT !.S = r.S, !.raised = r.raised, !.audit = r.audit]
    [] stmt = "remove_loop" ->
         LET r == RemoveLoop(st.S, order, 1, user, names, fail, st.audit)
         IN  [st EXCEPT !.S = r.S, !.raised = r.raised, !.audit = r.audit]
    [] stmt = "publish" -> [st EXCEPT !.published = @ + 1, !.events = @ \o st.audit]

RECURSIVE RunBlock(_, _, _, _, _, _, _)
\* the statements of a block from the k-th on: an exception ends the block
RunBlock(stmts, k, st, order, user, names, fail) ==
  IF k > Len(stmts) \/ st.raised THEN st
  ELSE RunBlock(stmts, k + 1, RunStatement(stmts[k], st, order, user, names, fail),
                order, user, names, fail)

\* a try statement and the statements after it: the finally clause runs when
\* the try block is left, completed or by an exception; the exception then
\* leaves the handler, and the statements after the try statement run only
\* without one
RunTryFinally(body, S, order, user, names, fail) ==
  LET start == [S |-> S, audit |-> <<>>, raised |-> FALSE, published |-> 0,
                events |-> <<>>]
      tried == RunBlock(body.try, 1, start, order, user, names, fail)
      final == RunBlock(body.finally, 1, [tried EXCEPT !.raised = FALSE],
                        order, user, names, fail)
  IN  IF tried.raised \/ final.raised THEN [final EXCEPT !.raised = TRUE]
      ELSE RunBlock(body.after, 1, final, order, user, names, fail)


\* the add handler raises at the failing point unless the point is a call
\* it does not make: idx.AddClientLabels of a client the relational store
\* does not know
AddFailFires(order, fail) ==
  /\ fail # NoFail
  /\ \/ fail.pos = 0
     \/ ~(relWrite /\ AddSteps[fail.step] = "idx_add" /\ order[fail.pos] \notin relKnown)

\* the clients for which REL_DB.AddClientLabels raised UnknownClientError:
\* the unknown clients the loop reached
UnknownRaised(order, fail) ==
  IF ~relWrite \/ (AddFailFires(order, fail) /\ fail.pos = 0) THEN {}
  ELSE {order[i] : i \in {j \in 1..Len(order) :
          /\ order[j] \notin relKnown
          /\ \/ ~AddFailFires(order, fail)
             \/ j < fail.pos
             \/ (j = fail.pos /\ fail.step > 1)}}

\* a handler that would undo a failed request: the stores as they were, no
\* audit event
AddHandleAtomic(S, order, user, names, fail) ==
  LET body == IF fail.pos = 0 /\ fail # NoFail
              THEN [S |-> S, raised |-> TRUE, audit |-> <<>>]
              ELSE AddLoop(S, order, 1, user, names, fail, <<>>)
  IN  [S |-> IF body.raised THEN S ELSE body.S,
       resp |-> [kind |-> "add",
                 outcome |-> IF body.raised THEN "error" ELSE "ok",
                 published |-> 1,
                 events |-> IF body.raised THEN <<>> ELSE body.audit,
                 unknown |-> UnknownRaised(order, fail)]]

\* ApiAddClientsLabelsHandler.Handle
AddHandle(S, order, user, names, fail) ==
  LET st == RunTryFinally(AddBody, S, order, user, names, fail)
  IN  [S |-> st.S,
       resp |-> [kind |-> "add",
                 outcome |-> IF st.raised THEN "error" ELSE "ok",
                 published |-> st.published,
                 events |-> st.events,
                 unknown |-> UnknownRaised(order, fail)]]

\* ApiRemoveClientsLabelsHandler.Handle
RemoveHandle(S, order, user, names, fail) ==
  LET st == RunTryFinally(RemoveBody, S, order, user, names, fail)
  IN  [S |-> st.S,
       resp |-> [kind |-> "remove",
                 outcome |-> IF st.raised THEN "error" ELSE "ok",
                 published |-> st.published,
                 events |-> st.events,
                 unknown |-> {}]]

\* the value of an ApiClientId constructed from nothing
EmptyId == 0

\* the longest client_ids list of a request that is checked for invalid ids
MaxIds == 2

\* ApiClientId.ToClientURN: raises on the empty value
ToClientURN(cid) == [raised |-> cid = EmptyId, urn |-> cid]

\* [cid.ToClientURN() for cid in args.client_ids]: the list is built, or the
\* first conversion that raises ends the request, before MultiOpen is called
UrnsRaise(clientIds) == \E i \in 1..Len(clientIds) : ToClientURN(clientIds[i]).raised

\* the failing point of a list comprehension that raises: it is the argument
\* of MultiOpen, the second statement of the try block
UrnFail == [pos |-> 0, step |-> 2, done |-> <<>>]

\* the ids of a list up to the first one whose conversion raises
RECURSIVE ValidPrefix(_, _)
ValidPrefix(clientIds, i) ==
  IF i > Len(clientIds) \/ ToClientURN(clientIds[i]).raised THEN <<>>
  ELSE <<ToClientURN(clientIds[i]).urn>> \o ValidPrefix(clientIds, i + 1)

\* a handler that would convert each id when its turn in the loop comes
AddHandleIdsLazy(S, clientIds, order, user, names) ==
  IF UrnsRaise(clientIds)
  THEN [S |-> AddLoop(S, ValidPrefix(clientIds, 1), 1, user, names, NoFail, <<>>).S,
        resp |-> AddHandle(S, <<>>, user, names, UrnFail).resp]
  ELSE AddHandle(S, order, user, names, NoFail)

\* ApiAddClientsLabelsHandler.Handle from args.client_ids on; order is the
\* order in which MultiOpen yields the clients
AddHandleIds(S, clientIds, order, user, names) ==
  AddHandle(S, order, user, names, IF UrnsRaise(clientIds) THEN UrnFail ELSE NoFail)

\* ApiRemoveClientsLabelsHandler.Handle from args.client_ids on
RemoveHandleIds(S, clientIds, order, user, names) ==
  RemoveHandle(S, order, user, names, IF UrnsRaise(clientIds) THEN UrnFail ELSE NoFail)

\* system labels the clients carry before any request
SystemLabels(sys) ==
  [c \in Clients |-> IF c \in sys THEN {[name |-> "A", owner |-> SystemOwner]} ELSE {}]

InitLabels ==
  /\ relRead = FALSE
  /\ relWrite \in BOOLEAN
  /\ relKnown \in {Clients \ u : u \in SUBSET Targets}
  /\ \E sys \in SUBSET Targets :
       /\ legacyLabels = SystemLabels(sys)
       /\ relLabels = SystemLabels(sys \cap relKnown)
  /\ legacyIndex = IndexOf(legacyLabels)
  /\ relIndex = UNION {ClientKeywords(c, relLabels[c]) : c \in relKnown}
  /\ statValues = <<>>
  /\ clientData = NoData
  /\ clientId = NoId
  /\ procs = NoProcs
  /\ req = NoReq
  /\ resp = NoResp
  /\ hist = [phase |-> "none", n |-> 0]

Install(r) ==
  /\ legacyLabels' = r.S.ll
  /\ relLabels' = r.S.rl
  /\ legacyIndex' = r.S.li
  /\ relIndex' = r.S.ri
  /\ resp' = r.resp

\* a non-empty batch of clients, in the order MultiOpen yields them
Batches == UNION {MultiOpen(SortedSeq(ids)) : ids \in (SUBSET Targets) \ {{}}}

LabelSets == (SUBSET Names) \ {{}}

\* the request whose clients MultiOpen yielded in this order
LabelsRequest(op, order, user, names, fail) ==
  [op |-> op, user |-> user, labels |-> names, ids |-> Range(order),
   order |-> order, fail |-> fail, invalid |-> FALSE]

\* the record of the requests so far, after an add-labels request
HistAfterAdd(order, user, names, fail) ==
  IF fail = NoFail
  THEN [phase |-> "added", n |-> hist.n + 1, user |-> user,
        labels |-> names, ids |-> Range(order), before |-> Store]
  ELSE [phase |-> "none", n |-> hist.n + 1]

\* the record of the requests so far, after a remove-labels request
HistAfterRemove(order, user, names, fail) ==
  IF /\ fail = NoFail
     /\ hist.phase = "added"
     /\ hist.user = user /\ hist.labels = names /\ hist.ids = Range(order)
  THEN [hist EXCEPT !.phase = "removed", !.n = hist.n + 1]
  ELSE [phase |-> "none", n |-> hist.n + 1]

AddLabelsWith(order, user, names, fail) ==
  /\ req' = LabelsRequest("add", order, user, names, fail)
  /\ Install(AddHandle(Store, order, user, names, fail))
  /\ hist' = HistAfterAdd(order, user, names, fail)
  /\ UNCHANGED <<relRead, relWrite, relKnown, statValues, clientData, clientId, procs>>

RemoveLabelsWith(order, user, names, fail) ==
  /\ req' = LabelsRequest("remove", order, user, names, fail)
  /\ Install(RemoveHandle(Store, order, user, names, fail))
  /\ hist' = HistAfterRemove(order, user, names, fail)
  /\ UNCHANGED <<relRead, relWrite, relKnown, statValues, clientData, clientId, procs>>

\* an add-labels request that no storage error interrupts
AddLabels ==
  /\ hist.n < MaxOps
  /\ \E order \in Batches, user \in Users, names \in LabelSets :
       AddLabelsWith(order, user, names, NoFail)

\* a remove-labels request that no storage error interrupts
RemoveLabels ==
  /\ hist.n < MaxOps
  /\ \E order \in Batches, user \in Users, names \in LabelSets :
       RemoveLabelsWith(order, user, names, NoFail)

Next == AddLabels \/ RemoveLabels

Spec == InitLabels /\ [][Next]_vars

\* no request has failed yet
NoneFailed == IF resp.kind = "none" THEN TRUE ELSE resp.outcome = "ok"

\* an add-labels request during which the storage raises
AddLabelsFailing ==
  /\ hist.n <= MaxFailPrefix
  /\ NoneFailed
  /\ \E order \in Batches, user \in Users, names \in LabelSets :
       \E fail \in Fails(order, AddSteps) : AddLabelsWith(order, user, names, fail)

\* a remove-labels request during which the storage raises; a raise between
\* the RemoveLabels calls of two owners takes labels of two users on one
\* client, which the requests before it have to add
RemoveLabelsFailing ==
  /\ NoneFailed
  /\ \E order \in Batches, user \in Users, names \in LabelSets :
       \E fail \in Fails(order, RemoveSteps) :
         /\ \/ hist.n <= MaxFailPrefix
            \/ /\ hist.n < MaxOps
               /\ fail.done # <<>>
               /\ RemoveLabelsCallMade(legacyLabels[order[fail.pos]], names, fail.done)
         /\ RemoveLabelsWith(order, user, names, fail)

\* the client_ids lists of a request: ids of clients and empty ids
IdBatches == UNION {[1..n -> Targets \cup {EmptyId}] : n \in 1..MaxIds}

\* what MultiOpen yields for the converted ids (nothing when one raised)
OpenOrders(clientIds) ==
  IF UrnsRaise(clientIds) THEN {<<>>} ELSE MultiOpen(SortedSeq(Range(clientIds)))

\* the request as it is recorded: one that was rejected keeps its client_ids
IdsRequest(op, clientIds, order, user, names) ==
  IF UrnsRaise(clientIds)
  THEN [op |-> op, user |-> user, labels |-> names,
        ids |-> Range(clientIds) \ {EmptyId}, order |-> order, fail |-> NoFail,
        invalid |-> TRUE, client_ids |-> clientIds]
  ELSE LabelsRequest(op, order, user, names, NoFail)

\* an add-labels request whose client_ids may hold empty ids
AddLabelsForIds ==
  /\ hist.n <= MaxFailPrefix
  /\ NoneFailed
  /\ \E clientIds \in IdBatches, user \in Users, names \in LabelSets :
       \E order \in OpenOrders(clientIds) :
         /\ req' = IdsRequest("add", clientIds, order, user, names)
         /\ Install(AddHandleIds(Store, clientIds, order, user, names))
         /\ hist' = IF UrnsRaise(clientIds) THEN [phase |-> "none", n |-> hist.n + 1]
                    ELSE HistAfterAdd(order, user, names, NoFail)
         /\ UNCHANGED <<relRead, relWrite, relKnown, statValues, clientData, clientId, procs>>

\* a remove-labels request whose client_ids may hold empty ids
RemoveLabelsForIds ==
  /\ hist.n <= MaxFailPrefix
  /\ NoneFailed
  /\ \E clientIds \in IdBatches, user \in Users, names \in LabelSets :
       \E order \in OpenOrders(clientIds) :
         /\ req' = IdsRequest("remove", clientIds, order, user, names)
         /\ Install(RemoveHandleIds(Store, clientIds, order, user, names))
         /\ hist' = IF UrnsRaise(clientIds) THEN [phase |-> "none", n |-> hist.n + 1]
                    ELSE HistAfterRemove(order, user, names, NoFail)
         /\ UNCHANGED <<relRead, relWrite, relKnown, statValues, clientData, clientId, procs>>

\* requests follow one another until one fails
NextFail ==
  \/ NoneFailed /\ AddLabels
  \/ NoneFailed /\ RemoveLabels
  \/ AddLabelsFailing
  \/ RemoveLabelsFailing
  \/ AddLabelsForIds
  \/ RemoveLabelsForIds

SpecFail == InitLabels /\ [][NextFail]_vars

\* ------------------------------------------------------ client load stats
\* ApiGetClientLoadStatsHandler.MAX_SAMPLES
MAX_SAMPLES == 100

CpuMetrics == {"CPU_PERCENT", "CPU_SYSTEM", "CPU_USER"}
IoMetrics == {"IO_READ_BYTES", "IO_WRITE_BYTES", "IO_READ_OPS", "IO_WRITE_OPS"}
SnapshotMetrics == {"NETWORK_BYTES_RECEIVED", "NETWORK_BYTES_SENT", "MEMORY_PERCENT",
                    "MEMORY_RSS_SIZE", "MEMORY_VMS_SIZE"}
Metrics == CpuMetrics \cup IoMetrics \cup SnapshotMetrics

\* a selector none of the branches of the handler recognizes
UnknownMetric == "UNKNOWN"

GAUGE_METRICS == {"CPU_PERCENT", "MEMORY_PERCENT", "MEMORY_RSS_SIZE", "MEMORY_VMS_SIZE"}

Point(v, t) == [value |-> v, timestamp |-> t]

\* the field of a cpu or io sample, or of a snapshot, that a metric reads
SampleField(metric, x) ==
  CASE metric = "CPU_PERCENT" -> x.cpu_percent
    [] metric = "CPU_SYSTEM" -> x.system_cpu_time
    [] metric = "CPU_USER" -> x.user_cpu_time
    [] metric = "IO_READ_BYTES" -> x.read_bytes
    [] metric = "IO_WRITE_BYTES" -> x.write_bytes
    [] metric = "IO_READ_OPS" -> x.read_count
    [] metric = "IO_WRITE_OPS" -> x.write_count
    [] metric = "NETWORK_BYTES_RECEIVED" -> x.bytes_received
    [] metric = "NETWORK_BYTES_SENT" -> x.bytes_sent
    [] metric = "MEMORY_PERCENT" -> x.memory_percent
    [] metric = "MEMORY_RSS_SIZE" -> x.RSS_size
    [] metric = "MEMORY_VMS_SIZE" -> x.VMS_size

\* the points one stat_value contributes (one branch of the if/elif chain)
ExtractOne(metric, sv) ==
  IF metric \in CpuMetrics
  THEN [j \in 1..Len(sv.cpu_samples) |->
          Point(SampleField(metric, sv.cpu_samples[j]), sv.cpu_samples[j].timestamp)]
  ELSE IF metric \in IoMetrics
  THEN [j \in 1..Len(sv.io_samples) |->
          Point(SampleField(metric, sv.io_samples[j]), sv.io_samples[j].timestamp)]
  ELSE <<Point(SampleField(metric, sv), sv.age)>>

RECURSIVE Extract(_, _, _, _)
\* "for stat_value in reversed(stat_values)": the points of the stored
\* values lo..hi, those of the later stored value first
Extract(metric, svs, lo, hi) ==
  IF lo > hi THEN <<>>
  ELSE IF lo = hi THEN ExtractOne(metric, svs[lo])
  ELSE LET mid == (lo + hi) \div 2
       IN  Extract(metric, svs, mid + 1, hi) \o Extract(metric, svs, lo, mid)

\* the else branch raises as soon as the loop body runs once
ExtractRaises(metric, svs) == metric \notin Metrics /\ Len(svs) > 0

RECURSIVE SortBetween(_, _, _)
\* the points, all of timestamps lo..hi, ascending by timestamp; points of
\* one timestamp keep their order
SortBetween(points, lo, hi) ==
  IF Len(points) <= 1 \/ lo >= hi THEN points
  ELSE LET mid == (lo + hi) \div 2
       IN  SortBetween(SelectSeq(points, LAMBDA p : p.timestamp <= mid), lo, mid)
             \o SortBetween(SelectSeq(points, LAMBDA p : p.timestamp > mid), mid + 1, hi)

\* the points as the extraction loop appended them
Unsorted(points) == points

\* points.sort(key=lambda x: x[1]): ascending by timestamp, stable
SortByTimestamp(points) ==
  IF points = <<>> THEN points
  ELSE LET times == {points[i].timestamp : i \in 1..Len(points)}
       IN  SortBetween(points, SetMin(times), CHOOSE t \in times : \A u \in times : u <= t)

\* Timeseries.MakeIncreasing: each value below the running maximum is
\* replaced by it
MakeIncreasing(points) ==
  [i \in 1..Len(points) |->
     Point(LET seen == {points[j].value : j \in 1..i}
           IN  CHOOSE m \in seen : \A v \in seen : v <= m,
           points[i].timestamp)]

\* ((end_time - start_time).seconds / MAX_SAMPLES) or 1
SamplingInterval(start, end) ==
  IF (end - start) \div MAX_SAMPLES = 0 THEN 1 ELSE (end - start) \div MAX_SAMPLES

RECURSIVE SumValues(_, _)
SumValues(points, i) == IF i > Len(points) THEN 0 ELSE points[i].value + SumValues(points, i + 1)

\* Timeseries.Normalize: the points of [start, end) fall into buckets of the
\* sampling interval; each bucket that holds points yields one point at the
\* bucket's start (gauge: the mean of the bucket, counter: its last value)
Normalize(points, period, start, end, gauge) ==
  LET inRange == SelectSeq(points, LAMBDA p : p.timestamp >= start /\ p.timestamp < end)
      bucket(p) == (p.timestamp - start) \div period
      buckets == {bucket(inRange[i]) : i \in 1..Len(inRange)}
      members(b) == SelectSeq(inRange, LAMBDA p : bucket(p) = b)
      value(b) == IF gauge THEN SumValues(members(b), 1) \div Len(members(b))
                  ELSE members(b)[Len(members(b))].value
      count == ((end - start) + period - 1) \div period
      order == SelectSeq([b \in 1..count |-> b - 1], LAMBDA b : b \in buckets)
  IN  [k \in 1..Len(order) |-> Point(value(order[k]), start + order[k] * period)]

\* the condition under which the handler downsamples
NormalizeByPoints(svs, points) == Len(points) > MAX_SAMPLES

ShouldNormalize(svs, points) == Len(svs) > MAX_SAMPLES

\* rdfvalue.Duration("30m"), in seconds
Duration30m == 1800

\* ApiGetClientLoadStatsHandler.Handle; svs are the values read for the age
\* range (start_time, end_time), now is the clock's time. A time that is
\* unset or zero is false: "if not end_time: end_time = RDFDatetime.Now()",
\* "if not start_time: start_time = end_time - rdfvalue.Duration('30m')"
LoadStatsHandle(svs, metric, start, end, now) ==
  LET end_time == IF end = 0 THEN now ELSE end
      start_time == IF start = 0 THEN end_time - Duration30m ELSE start
  IN
  IF ExtractRaises(metric, svs)
  THEN [kind |-> "stats", outcome |-> "error", points |-> <<>>, series |-> <<>>,
        extracted |-> 0, normalized |-> FALSE,
        start_time |-> start_time, end_time |-> end_time]
  ELSE
    LET points == IF metric \in Metrics THEN Extract(metric, svs, 1, Len(svs)) ELSE <<>>
        sorted == SortByTimestamp(points)
        ts == IF metric \notin GAUGE_METRICS THEN MakeIncreasing(sorted) ELSE sorted
        norm == ShouldNormalize(svs, points)
    IN  [kind |-> "stats", outcome |-> "ok",
         points |-> IF norm
                    THEN Normalize(ts, SamplingInterval(start_time, end_time),
                                   start_time, end_time, metric \in GAUGE_METRICS)
                    ELSE ts,
         series |-> sorted,
         extracted |-> Len(points),
         normalized |-> norm,
         start_time |-> start_time, end_time |-> end_time]

\* stored snapshots: n snapshots of k cpu samples and k io samples each.
\* interleaved: the sample times of the snapshots overlap; otherwise each
\* snapshot's samples follow the previous snapshot's.
SampleTime(i, j, n, k, interleaved) ==
  IF interleaved THEN (j - 1) * n + i ELSE (i - 1) * k + j

SampleValue(t) == (3 * t) % 7

CpuSample(t) ==
  [timestamp |-> t, cpu_percent |-> SampleValue(t), system_cpu_time |-> SampleValue(t) + 10,
   user_cpu_time |-> SampleValue(t) + 20]

IoSample(t) ==
  [timestamp |-> t, read_bytes |-> SampleValue(t) + 30, write_bytes |-> SampleValue(t) + 40,
   read_count |-> SampleValue(t) + 50, write_count |-> SampleValue(t) + 60]

Snapshot(i, n, k, interleaved) ==
  [age |-> IF k = 0 THEN i ELSE SampleTime(i, k, n, k, interleaved),
   cpu_samples |-> [j \in 1..k |-> CpuSample(SampleTime(i, j, n, k, interleaved))],
   io_samples |-> [j \in 1..k |-> IoSample(SampleTime(i, j, n, k, interleaved))],
   bytes_received |-> SampleValue(i) + 70, bytes_sent |-> SampleValue(i) + 80,
   memory_percent |-> SampleValue(i) + 90, RSS_size |-> SampleValue(i) + 100,
   VMS_size |-> SampleValue(i) + 110]

\* newest first, as the attribute's values are stored, or oldest first
Snapshots(n, k, interleaved, newestFirst) ==
  [i \in 1..n |-> Snapshot(IF newestFirst THEN n + 1 - i ELSE i, n, k, interleaved)]

\* stored snapshots whose sample windows overlap and share timestamps:
\* snapshot i holds samples at the times i .. i+k-1, with values of its own
OverlapSnapshot(i, k) ==
  [age |-> i + k - 1,
   cpu_samples |-> [j \in 1..k |->
      [timestamp |-> i + j - 1, cpu_percent |-> 10 * i + j,
       system_cpu_time |-> 10 * i + j + 100, user_cpu_time |-> 10 * i + j + 200]],
   io_samples |-> [j \in 1..k |->
      [timestamp |-> i + j - 1, read_bytes |-> 10 * i + j + 300,
       write_bytes |-> 10 * i + j + 400, read_count |-> 10 * i + j + 500,
       write_count |-> 10 * i + j + 600]],
   bytes_received |-> 10 * i + 700, bytes_sent |-> 10 * i + 800,
   memory_percent |-> 10 * i + 900, RSS_size |-> 10 * i + 1000,
   VMS_size |-> 10 * i + 1100]

OverlapSnapshots(n, k, newestFirst) ==
  [i \in 1..n |-> OverlapSnapshot(IF newestFirst THEN n + 1 - i ELSE i, k)]

MaxSnapshots == 3
MaxSamplesPerSnapshot == 2

\* the small stores, and the stores around the cap of MAX_SAMPLES
StoreShapes ==
  ((0..MaxSnapshots) \X (0..MaxSamplesPerSnapshot))
    \cup {<<1, MAX_SAMPLES + 1>>, <<2, (MAX_SAMPLES \div 2) + 1>>, <<MAX_SAMPLES, 1>>,
          <<MAX_SAMPLES + 1, 0>>, <<MAX_SAMPLES + 1, 1>>, <<MAX_SAMPLES + 1, 2>>}

\* args.start and args.end of the requests; 0 is a time that is not set
Starts == {0, MAX_SAMPLES \div 2}

Ends == {0, MAX_SAMPLES, 3 * MAX_SAMPLES}

\* the times RDFDatetime.Now() returns
Nows == {2 * MAX_SAMPLES, 20 * MAX_SAMPLES}

InitStats ==
  /\ relRead = FALSE
  /\ relWrite = FALSE
  /\ relKnown = Clients
  /\ legacyLabels = [c \in Clients |-> {}]
  /\ relLabels = legacyLabels
  /\ legacyIndex = IndexOf(legacyLabels)
  /\ relIndex = legacyIndex
  /\ \/ \E shape \in StoreShapes, interleaved \in BOOLEAN, newestFirst \in BOOLEAN :
          statValues = Snapshots(shape[1], shape[2], interleaved, newestFirst)
     \/ \E n \in 2..MaxSnapshots, k \in 2..MaxSamplesPerSnapshot, newestFirst \in BOOLEAN :
          statValues = OverlapSnapshots(n, k, newestFirst)
  /\ clientData = NoData
  /\ clientId = NoId
  /\ procs = NoProcs
  /\ req = NoReq
  /\ resp = NoResp
  /\ hist = NoHist

\* a load stats request over the stored values
GetClientLoadStats ==
  /\ req = NoReq
  /\ \E metric \in Metrics \cup {UnknownMetric}, start \in Starts, end \in Ends,
          now \in Nows :
       /\ req' = [op |-> "stats", metric |-> metric, start |-> start, end |-> end]
       /\ resp' = LoadStatsHandle(statValues, metric, start, end, now)
  /\ UNCHANGED <<relRead, relWrite, relKnown, legacyLabels, relLabels, legacyIndex,
                 relIndex, statValues, clientData, clientId, procs, hist>>

NextStats == GetClientLoadStats

SpecStats == InitStats /\ [][NextStats]_vars

\* ------------------------------------------------------- client records
\* the timestamps stored for a client
Timestamps == {0, 7}

\* an optional value: absent (None, or a field that is not set), or present
Absent == [present |-> FALSE, value |-> 0]

Present(v) == [present |-> TRUE, value |-> v]

Optional(S) == {Absent} \cup {Present(v) : v \in S}

\* "if x:" on an optional timestamp: None, an unset field and the timestamp
\* zero are false
Truthy(x) == x.present /\ x.value # 0

\* ApiClient.InitFromAff4Object, the metadata fields
InitFromAff4Object(data, include_metadata) ==
  IF include_metadata
  THEN [last_seen_at |-> IF Truthy(data.ping) THEN data.ping ELSE Absent,
        last_booted_at |-> IF Truthy(data.boot_time) THEN data.boot_time ELSE Absent,
        last_clock |-> IF Truthy(data.clock) THEN data.clock ELSE Absent,
        last_crash_at |-> IF data.last_crash.present THEN data.last_crash ELSE Absent]
  ELSE [last_seen_at |-> Absent, last_booted_at |-> Absent, last_clock |-> Absent,
        last_crash_at |-> Absent]

\* ApiClient.InitFromClientObject, the metadata field it sets
InitFromClientObject(data) ==
  [last_seen_at |-> Absent,
   last_booted_at |-> IF Truthy(data.boot_time) THEN data.boot_time ELSE Absent,
   last_clock |-> Absent,
   last_crash_at |-> Absent]

\* ApiClient.InitFromClientInfo, the metadata fields
InitFromClientInfo(data) ==
  LET r == InitFromClientObject(data)
  IN  [last_seen_at |-> IF Truthy(data.ping) THEN data.ping ELSE r.last_seen_at,
       last_booted_at |-> IF Truthy(data.startup_boot_time) THEN data.startup_boot_time
                          ELSE r.last_booted_at,
       last_clock |-> IF Truthy(data.clock) THEN data.clock ELSE r.last_clock,
       last_crash_at |-> IF Truthy(data.last_crash) THEN data.last_crash
                         ELSE r.last_crash_at]

\* the stored metadata of a client, the same in both backends: ping, clock
\* and last crash, the boot time of the last interrogation, and the boot time
\* of the last startup (the relational backend keeps both boot times)
ClientDatas ==
  [kind : {"client"}, ping : Optional(Timestamps), boot_time : Optional(Timestamps),
   startup_boot_time : Optional(Timestamps), clock : Optional(Timestamps),
   last_crash : Optional(Timestamps)]

InitRecord ==
  /\ relRead = FALSE
  /\ relWrite = FALSE
  /\ relKnown = Clients
  /\ legacyLabels = [c \in Clients |-> {}]
  /\ relLabels = legacyLabels
  /\ legacyIndex = IndexOf(legacyLabels)
  /\ relIndex = legacyIndex
  /\ statValues = <<>>
  /\ clientData \in ClientDatas
  /\ clientId = NoId
  /\ procs = NoProcs
  /\ req = NoReq
  /\ resp = NoResp
  /\ hist = NoHist

\* a client record is built from the client's AFF4 object
BuildFromAff4Object ==
  /\ req = NoReq
  /\ \E include_metadata \in BOOLEAN :
       /\ req' = [op |-> "record", backend |-> "legacy",
                  include_metadata |-> include_metadata]
       /\ resp' = [kind |-> "record",
                   record |-> InitFromAff4Object(clientData, include_metadata)]
  /\ UNCHANGED <<relRead, relWrite, relKnown, legacyLabels, relLabels, legacyIndex,
                 relIndex, statValues, clientData, clientId, procs, hist>>

\* a client record is built from the relational store's full info
BuildFromClientInfo ==
  /\ req = NoReq
  /\ req' = [op |-> "record", backend |-> "relational", include_metadata |-> TRUE]
  /\ resp' = [kind |-> "record", record |-> InitFromClientInfo(clientData)]
  /\ UNCHANGED <<relRead, relWrite, relKnown, legacyLabels, relLabels, legacyIndex,
                 relIndex, statValues, clientData, clientId, procs, hist>>

NextRecord == BuildFromAff4Object \/ BuildFromClientInfo

SpecRecord == InitRecord /\ [][NextRecord]_vars

\* ---------------------------------------------------- client identifiers
\* An identifier's text is a sequence of characters.
\* VFSGRRClient.CLIENT_ID_RE: "C." and a hex suffix of fixed length
SuffixLen == 16

HexChars == {"0", "1", "2", "3", "4", "5", "6", "7", "8", "9",
             "a", "b", "c", "d", "e", "f", "A", "B", "C", "D", "E", "F"}

\* CLIENT_ID_RE.match(value)
Matches(value) ==
  /\ Len(value) = 2 + SuffixLen
  /\ value[1] = "C"
  /\ value[2] = "."
  /\ \A i \in 3..Len(value) : value[i] \in HexChars

\* the value RDFString keeps for an initializer: the basename of a client
\* urn, the text of a string, the empty text for None
ValueOf(initializer) ==
  IF initializer.kind = "none" THEN <<>> ELSE initializer.text

\* ApiClientId.__init__: a value that is not empty must match the grammar
ConstructRaises(initializer) ==
  ValueOf(initializer) # <<>> /\ ~Matches(ValueOf(initializer))

\* ApiClientId.ToClientURN on the kept value
ValueToClientURN(value) == [raised |-> value = <<>>, urn |-> value]

\* texts of the shape <prefix><separator><n times one character>
IdText(prefix, sep, ch, n) == <<prefix, sep>> \o [i \in 1..n |-> ch]

SuffixLens == {SuffixLen - 1, SuffixLen, SuffixLen + 1}

\* the initializers: None, the empty string, texts inside and outside the
\* grammar, and client urns
Initializers ==
  {[kind |-> "none"], [kind |-> "string", text |-> <<>>]}
    \cup {[kind |-> "string", text |-> IdText(p, sp, ch, n)] :
            p \in {"C", "c", "X"}, sp \in {".", "-"},
            ch \in {"0", "9", "a", "f", "A", "F", "g", " "}, n \in SuffixLens}
    \cup {[kind |-> "urn", text |-> IdText("C", ".", ch, SuffixLen)] : ch \in {"1", "b"}}

InitClientId ==
  /\ relRead = FALSE
  /\ relWrite = FALSE
  /\ relKnown = Clients
  /\ legacyLabels = [c \in Clients |-> {}]
  /\ relLabels = legacyLabels
  /\ legacyIndex = IndexOf(legacyLabels)
  /\ relIndex = legacyIndex
  /\ statValues = <<>>
  /\ clientData = NoData
  /\ clientId \in {[state |-> "new", initializer |-> x] : x \in Initializers}
  /\ procs = NoProcs
  /\ req = NoReq
  /\ resp = NoResp
  /\ hist = NoHist

\* ApiClientId(initializer)
ConstructClientId ==
  /\ clientId.state = "new"
  /\ req' = [op |-> "construct"]
  /\ IF ConstructRaises(clientId.initializer)
     THEN /\ clientId' = [state |-> "failed", initializer |-> clientId.initializer]
          /\ resp' = [kind |-> "client_id", outcome |-> "error"]
     ELSE /\ clientId' = [state |-> "constructed", initializer |-> clientId.initializer,
                          value |-> ValueOf(clientId.initializer)]
          /\ resp' = [kind |-> "client_id", outcome |-> "ok"]
  /\ UNCHANGED <<relRead, relWrite, relKnown, legacyLabels, relLabels, legacyIndex,
                 relIndex, statValues, clientData, procs, hist>>

\* client_id.ToClientURN() on a constructed identifier
ConvertToClientURN ==
  /\ clientId.state = "constructed"
  /\ req.op = "construct"
  /\ req' = [op |-> "to_urn"]
  /\ resp' = [kind |-> "urn",
              outcome |-> IF ValueToClientURN(clientId.value).raised THEN "error" ELSE "ok"]
  /\ UNCHANGED <<relRead, relWrite, relKnown, legacyLabels, relLabels, legacyIndex,
                 relIndex, statValues, clientData, clientId, procs, hist>>

NextClientId == ConstructClientId \/ ConvertToClientURN

SpecClientId == InitClientId /\ [][NextClientId]_vars

\* ------------------------------------------------- concurrent requests
\* A remove-labels and an add-labels request for one client run at the same
\* time. The handlers hold no lock: every storage call is one atomic step,
\* and the calls of the other request can run between any two of them.
\* idx.RemoveClientLabels is called only when labels_to_remove is not empty,
\* client.RemoveLabels once per affected owner.
RemoverSteps == <<"rel_remove", "rel_read", "idx_remove", "index_remove", "get_labels",
                  "remove_labels", "index_add", "close", "done">>

AdderSteps == <<"rel_add", "idx_add", "add_labels", "index_add", "close", "done">>

\* the labels a client may hold before the requests
StoredLabelSets == SUBSET Label

\* the pairs of label lists of the two requests: they share a name
SharedNames == {p \in LabelSets \X LabelSets : p[1] \cap p[2] # {}}

InitConcurrent ==
  /\ relRead = FALSE
  /\ relWrite = TRUE
  /\ relKnown = Clients
  /\ \E held \in StoredLabelSets :
       legacyLabels = [c \in Clients |-> IF c = 1 THEN held ELSE {}]
  /\ relLabels = legacyLabels
  /\ legacyIndex = IndexOf(legacyLabels)
  /\ relIndex = legacyIndex
  /\ statValues = <<>>
  /\ clientData = NoData
  /\ clientId = NoId
  /\ \E remover \in Users, adder \in Users, names \in SharedNames :
       /\ remover # adder
       /\ procs = [kind |-> "pair", client |-> 1,
                   remove |-> [pc |-> 1, user |-> remover, labels |-> names[1],
                               labels_to_remove |-> {}, affected_owners |-> <<>>],
                   add |-> [pc |-> 1, user |-> adder, labels |-> names[2]]]
  /\ req = NoReq
  /\ resp = NoResp
  /\ hist = NoHist

RemoverAt(step) == procs.kind = "pair" /\ RemoverSteps[procs.remove.pc] = step

AdderAt(step) == procs.kind = "pair" /\ AdderSteps[procs.add.pc] = step

\* data_store.REL_DB.RemoveClientLabels(cid, token.username, args.labels)
RemoverRelRemove ==
  /\ RemoverAt("rel_remove")
  /\ relLabels' = RelRemoveClientLabels(relLabels, procs.client, procs.remove.user,
                                        procs.remove.labels)
  /\ procs' = [procs EXCEPT !.remove.pc = @ + 1]
  /\ UNCHANGED <<relRead, relWrite, relKnown, legacyLabels, legacyIndex, relIndex,
                 statValues, clientData, clientId, req, resp, hist>>

\* existing_labels = REL_DB.ReadClientLabels(cid), and labels_to_remove; with
\* nothing to remove the relational index is not called
RemoverRelRead ==
  /\ RemoverAt("rel_read")
  /\ LET labels_to_remove == LabelsToRemove(procs.remove.labels,
                                            ReadClientLabels(relLabels, procs.client))
     IN  procs' = [procs EXCEPT
                     !.remove.pc = IF labels_to_remove = {} THEN @ + 2 ELSE @ + 1,
                     !.remove.labels_to_remove = labels_to_remove]
  /\ UNCHANGED <<relRead, relWrite, relKnown, legacyLabels, relLabels, legacyIndex,
                 relIndex, statValues, clientData, clientId, req, resp, hist>>

\* idx.RemoveClientLabels(cid, labels_to_remove)
RemoverIdxRemove ==
  /\ RemoverAt("idx_remove")
  /\ relIndex' = IdxRemoveClientLabels(relIndex, procs.client,
                                       procs.remove.labels_to_remove)
  /\ procs' = [procs EXCEPT !.remove.pc = @ + 1]
  /\ UNCHANGED <<relRead, relWrite, relKnown, legacyLabels, relLabels, legacyIndex,
                 statValues, clientData, clientId, req, resp, hist>>

\* index.RemoveClientLabels(client_obj)
RemoverIndexRemove ==
  /\ RemoverAt("index_remove")
  /\ legacyIndex' = LegacyIndexRemoveClientLabels(legacyIndex, procs.client,
                                                  legacyLabels[procs.client])
  /\ procs' = [procs EXCEPT !.remove.pc = @ + 1]
  /\ UNCHANGED <<relRead, relWrite, relKnown, legacyLabels, relLabels, relIndex,
                 statValues, clientData, clientId, req, resp, hist>>

\* self.RemoveClientLabels, first loop: client.GetLabels() gives the affected
\* owners, which the second loop visits in the iteration order of a set
RemoverGetLabels ==
  /\ RemoverAt("get_labels")
  /\ \E order \in Orders(AffectedOwners(legacyLabels[procs.client], procs.remove.labels)) :
       procs' = [procs EXCEPT
                   !.remove.pc = IF order = <<>> THEN @ + 2 ELSE @ + 1,
                   !.remove.affected_owners = order]
  /\ UNCHANGED <<relRead, relWrite, relKnown, legacyLabels, relLabels, legacyIndex,
                 relIndex, statValues, clientData, clientId, req, resp, hist>>

\* self.RemoveClientLabels, second loop: client.RemoveLabels(labels_names,
\* owner=owner) for the next affected owner
RemoverRemoveLabels ==
  /\ RemoverAt("remove_labels")
  /\ legacyLabels' = [legacyLabels EXCEPT ![procs.client] =
                        Aff4RemoveLabels(@, procs.remove.labels,
                                         Head(procs.remove.affected_owners))]
  /\ procs' = [procs EXCEPT
                 !.remove.pc = IF Len(procs.remove.affected_owners) = 1 THEN @ + 1 ELSE @,
                 !.remove.affected_owners = Tail(@)]
  /\ UNCHANGED <<relRead, relWrite, relKnown, relLabels, legacyIndex, relIndex,
                 statValues, clientData, clientId, req, resp, hist>>

\* index.AddClient(client_obj) of the remove handler
RemoverIndexAdd ==
  /\ RemoverAt("index_add")
  /\ legacyIndex' = LegacyIndexAddClient(legacyIndex, procs.client,
                                         legacyLabels[procs.client])
  /\ procs' = [procs EXCEPT !.remove.pc = @ + 1]
  /\ UNCHANGED <<relRead, relWrite, relKnown, legacyLabels, relLabels, relIndex,
                 statValues, clientData, clientId, req, resp, hist>>

\* client_obj.Close() of the remove handler
RemoverClose ==
  /\ RemoverAt("close")
  /\ procs' = [procs EXCEPT !.remove.pc = @ + 1]
  /\ UNCHANGED <<relRead, relWrite, relKnown, legacyLabels, relLabels, legacyIndex,
                 relIndex, statValues, clientData, clientId, req, resp, hist>>

\* data_store.REL_DB.AddClientLabels(cid, token.username, args.labels)
AdderRelAdd ==
  /\ AdderAt("rel_add")
  /\ relLabels' = RelAddClientLabels(relLabels, procs.client, procs.add.user,
                                     procs.add.labels)
  /\ procs' = [procs EXCEPT !.add.pc = @ + 1]
  /\ UNCHANGED <<relRead, relWrite, relKnown, legacyLabels, legacyIndex, relIndex,
                 statValues, clientData, clientId, req, resp, hist>>

\* idx.AddClientLabels(cid, args.labels)
AdderIdxAdd ==
  /\ AdderAt("idx_add")
  /\ relIndex' = IdxAddClientLabels(relIndex, procs.client, procs.add.labels)
  /\ procs' = [procs EXCEPT !.add.pc = @ + 1]
  /\ UNCHANGED <<relRead, relWrite, relKnown, legacyLabels, relLabels, legacyIndex,
                 statValues, clientData, clientId, req, resp, hist>>

\* client_obj.AddLabels(args.labels)
AdderAddLabels ==
  /\ AdderAt("add_labels")
  /\ legacyLabels' = [legacyLabels EXCEPT ![procs.client] =
                        Aff4AddLabels(@, procs.add.labels, procs.add.user)]
  /\ procs' = [procs EXCEPT !.add.pc = @ + 1]
  /\ UNCHANGED <<relRead, relWrite, relKnown, relLabels, legacyIndex, relIndex,
                 statValues, clientData, clientId, req, resp, hist>>

\* index.AddClient(client_obj) of the add handler
AdderIndexAdd ==
  /\ AdderAt("index_add")
  /\ legacyIndex' = LegacyIndexAddClient(legacyIndex, procs.client,
                                         legacyLabels[procs.client])
  /\ procs' = [procs EXCEPT !.add.pc = @ + 1]
  /\ UNCHANGED <<relRead, relWrite, relKnown, legacyLabels, relLabels, relIndex,
                 statValues, clientData, clientId, req, resp, hist>>

\* client_obj.Close() of the add handler
AdderClose ==
  /\ AdderAt("close")
  /\ procs' = [procs EXCEPT !.add.pc = @ + 1]
  /\ UNCHANGED <<relRead, relWrite, relKnown, legacyLabels, relLabels, legacyIndex,
                 relIndex, statValues, clientData, clientId, req, resp, hist>>

NextConcurrent ==
  \/ RemoverRelRemove
  \/ RemoverRelRead
  \/ RemoverIdxRemove
  \/ RemoverIndexRemove
  \/ RemoverGetLabels
  \/ RemoverRemoveLabels
  \/ RemoverIndexAdd
  \/ RemoverClose
  \/ AdderRelAdd
  \/ AdderIdxAdd
  \/ AdderAddLabels
  \/ AdderIndexAdd
  \/ AdderClose

SpecConcurrent == InitConcurrent /\ [][NextConcurrent]_vars

\* C1: label-restricted search returns a client only if, in the store it
\* read, the client holds one label whose name is whitelisted and whose owner
\* is whitelisted.
ReadLabels == IF relRead THEN relLabels ELSE legacyLabels

C1_OnlyPermittedClients ==
  resp.kind = "restricted" =>
    \A i \in 1..Len(resp.items) :
      \E l \in ReadLabels[resp.items[i]] :
        l.name \in req.wlNames /\ l.owner \in req.wlOwners

\* the example of the claim: labels (A, u1) and (B, u2), whitelist names {A},
\* owners {u2}: the client is a candidate of the coarse step and is left out,
\* while a client holding (A, u2) is returned
C1_Witness ==
  /\ resp.kind = "restricted"
  /\ req.wlNames = {"A"} /\ req.wlOwners = {"u2"}
  /\ req.keywords = <<>> /\ req.offset = 0 /\ req.count = 0
  /\ \E c, d \in Clients :
       /\ ReadLabels[c] = {[name |-> "A", owner |-> "u1"], [name |-> "B", owner |-> "u2"]}
       /\ c \notin Range(resp.items)
       /\ [name |-> "A", owner |-> "u2"] \in ReadLabels[d]
       /\ d \in Range(resp.items)

\* the candidates that pass re-verification, in the store the request read
Qualifying ==
  {c \in MultiReadClientFullInfo(Candidates(IF relRead THEN relIndex ELSE legacyIndex,
                                             req.keywords, req.wlNames)) :
     \E l \in ReadLabels[c] : l.name \in req.wlNames /\ l.owner \in req.wlOwners}

\* C2: the items of a label-restricted search are the positions
\* [offset, offset+count) (all from offset when count = 0) of the verified
\* candidates sorted by ascending identifier, in that order, on either backend.
C2_PageOfVerifiedSorted ==
  resp.kind = "restricted" =>
    resp.items = Slice(SortedSeq(Qualifying), req.offset,
                       IF req.count = 0 THEN Cardinality(Qualifying)
                       ELSE req.offset + req.count)

\* C3: the items of an unrestricted search are the positions
\* [offset, offset+count) of the sorted LookupClients result (count = 0: no
\* upper limit), in ascending identifier order, on either backend.
C3_SearchPageSorted ==
  resp.kind = "search" =>
    LET all == SortedSeq(LookupClients(IF relRead THEN relIndex ELSE legacyIndex,
                                       req.keywords))
    IN  resp.items = Slice(all, req.offset,
                           IF req.count = 0 THEN Len(all) ELSE req.offset + req.count)

\* the label names in L that the caller holds on c, in either store
CallerHolds(S, c, user, names) ==
  {n \in names : [name |-> n, owner |-> user] \in S.ll[c] \cup S.rl[c]}

\* C6: an add-labels request followed by a remove-labels request of the same
\* caller, clients and names leaves the label stores and the keyword indexes
\* as they were before the add, also when another owner held a label of a
\* requested name before. The prior states in which the caller held one, where
\* the add changes nothing and no removal can restore, are left out.
C6_AddThenRemoveRestores ==
  (/\ hist.phase = "removed"
   /\ \A c \in hist.ids : CallerHolds(hist.before, c, hist.user, hist.labels) = {})
    => Store = hist.before

\* C7: after completed add-labels and remove-labels requests, each index
\* holds label:n for a client exactly when the client holds a label named n
\* in the index's store, and the other keywords of the clients are kept.
C7_IndexIffLabel ==
  /\ \A c \in Clients, n \in Names :
       /\ <<LabelKeyword(n), c>> \in legacyIndex <=> n \in NamesOf(legacyLabels[c])
       /\ <<LabelKeyword(n), c>> \in relIndex <=> n \in NamesOf(relLabels[c])
  /\ \A c \in Clients : <<HostKeyword, c>> \in legacyIndex
  /\ \A c \in relKnown : <<HostKeyword, c>> \in relIndex

\* a removal that took the caller's label A and left label:A in both indexes
\* because the system label A remains, and one that dropped label:B
C7_Witness ==
  /\ req.op = "remove" /\ relWrite
  /\ hist.phase = "removed"
  /\ req.labels = {"A", "B"}
  /\ \E c \in req.ids \cap relKnown :
       /\ NamesOf(relLabels[c]) = {"A"}
       /\ NamesOf(legacyLabels[c]) = {"A"}
       /\ <<"label:A", c>> \in relIndex
       /\ <<"label:B", c>> \notin relIndex

SystemLabelsOf(labels) == {l \in labels : l.owner = SystemOwner}

\* C8: a remove-labels request leaves every label of the system owner on the
\* client, in the legacy and in the relational store.
C8_SystemLabelsKept ==
  [][req'.op = "remove" =>
       \A c \in Clients :
         /\ SystemLabelsOf(legacyLabels[c]) \subseteq legacyLabels'[c]
         /\ SystemLabelsOf(relLabels[c]) \subseteq relLabels'[c]]_vars

\* the caller's label A was removed from a client that holds the system
\* owner's label A in both stores
C8_Witness ==
  /\ req.op = "remove" /\ resp.outcome = "ok" /\ relWrite
  /\ hist.phase = "removed"
  /\ "A" \in req.labels
  /\ \E c \in req.ids \cap relKnown :
       /\ [name |-> "A", owner |-> SystemOwner] \in legacyLabels[c]
       /\ [name |-> "A", owner |-> SystemOwner] \in relLabels[c]
       /\ [name |-> "A", owner |-> req.user] \notin legacyLabels[c]
       /\ [name |-> "A", owner |-> req.user] \notin relLabels[c]
       /\ [name |-> "A", owner |-> req.user] \notin hist.before.ll[c]

\* C9: a label request during which the relational store raised
\* UnknownClientError does not complete normally.
C9_UnknownClientReported ==
  (resp.kind \in {"add", "remove"} /\ resp.unknown # {}) => resp.outcome # "ok"

\* C10: every add-labels or remove-labels request calls the audit publisher
\* exactly once, whether it completes or a storage or index call raises:
\* creating the index, opening the clients, or a call for any client.
C10_PublishedOnce ==
  resp.kind \in {"add", "remove"} => resp.published = 1

\* the storage raised at the second call for the second client of a batch:
\* the request ended in the error and the publisher was called once, with the
\* audit event of the first client
C10_Witness ==
  /\ resp.kind \in {"add", "remove"}
  /\ resp.outcome = "error"
  /\ req.fail.pos = 2 /\ req.fail.step = 2
  /\ resp.events = <<req.order[1]>>
  /\ resp.published = 1

\* C4: a load stats request with an unrecognized metric selector fails,
\* whatever the stored snapshots are, also when there is none.
C4_UnknownMetricFails ==
  (resp.kind = "stats" /\ req.metric \notin Metrics) => resp.outcome = "error"

\* C5: when more than MAX_SAMPLES points are extracted the series is
\* downsampled, and the returned series never has more than MAX_SAMPLES
\* points.
C5_AtMostMaxSamples ==
  (resp.kind = "stats" /\ resp.outcome = "ok") =>
    /\ resp.extracted > MAX_SAMPLES => resp.normalized
    /\ Len(resp.points) <= MAX_SAMPLES

\* what the stores hold about one client: its labels and its index keywords
ClientView(S, c) ==
  [ll |-> S.ll[c], rl |-> S.rl[c],
   li |-> {p \in S.li : p[2] = c}, ri |-> {p \in S.ri : p[2] = c}]

\* C11: when a label request fails on the k-th client processed, the labels
\* and index entries of the first k-1 clients are what the completed
\* mutation left (nothing is rolled back), the request ends in the error, and
\* the audit events are one per client of the first k-1, in order, and no
\* other.
C11_PrefixKeptAndAudited ==
  [][(req'.op \in {"add", "remove"} /\ resp'.outcome = "error" /\ req'.fail.pos >= 1) =>
       LET k == req'.fail.pos
           prefix == SubSeq(req'.order, 1, k - 1)
           done == IF req'.op = "add"
                   THEN AddHandle(Store, prefix, req'.user, req'.labels, NoFail)
                   ELSE RemoveHandle(Store, prefix, req'.user, req'.labels, NoFail)
       IN  /\ resp'.events = prefix
           /\ \A i \in 1..(k - 1) :
                ClientView(Store', prefix[i]) = ClientView(done.S, prefix[i])
           /\ \A i \in 1..(k - 1) :
                req'.op = "add" =>
                  /\ LabelsOf(req'.labels, req'.user) \subseteq legacyLabels'[prefix[i]]
                  /\ \A n \in req'.labels : <<LabelKeyword(n), prefix[i]>> \in legacyIndex'
                  /\ (relWrite /\ prefix[i] \in relKnown) =>
                       /\ LabelsOf(req'.labels, req'.user) \subseteq relLabels'[prefix[i]]
                       /\ \A n \in req'.labels :
                            <<LabelKeyword(n), prefix[i]>> \in relIndex']_vars

\* the first request is an add over two clients that fails at the first
\* storage call of the second client: the first client has the labels and the
\* keywords in both stores and one audit event is published for it, the
\* second client has nothing
C11_Witness ==
  /\ hist.n = 1 /\ relWrite
  /\ req.op = "add" /\ resp.outcome = "error"
  /\ Len(req.order) = 2 /\ req.fail = [pos |-> 2, step |-> 1, done |-> <<>>]
  /\ req.order[1] \in relKnown
  /\ resp.events = <<req.order[1]>>
  /\ \A n \in req.labels :
       /\ [name |-> n, owner |-> req.user] \in legacyLabels[req.order[1]]
       /\ [name |-> n, owner |-> req.user] \in relLabels[req.order[1]]
       /\ <<LabelKeyword(n), req.order[1]>> \in legacyIndex
       /\ <<LabelKeyword(n), req.order[1]>> \in relIndex
       /\ [name |-> n, owner |-> req.user] \notin legacyLabels[req.order[2]]
       /\ [name |-> n, owner |-> req.user] \notin relLabels[req.order[2]]

\* C12: a remove-labels request over clients whose labels are the same in the
\* legacy and in the relational store leaves them the same in both stores,
\* whoever owns the labels of the requested names.
C12_RemoveSameInBothStores ==
  [][(/\ req'.op = "remove" /\ resp'.outcome = "ok" /\ relWrite
      /\ \A c \in req'.ids : c \in relKnown /\ legacyLabels[c] = relLabels[c])
       => \A c \in req'.ids : legacyLabels'[c] = relLabels'[c]]_vars

\* the points of timestamp t, in the order of the sequence
AtTime(points, t) == SelectSeq(points, LAMBDA p : p.timestamp = t)

TimesOf(points) == {points[i].timestamp : i \in 1..Len(points)}

\* C13: the series a load stats request builds holds the extracted points
\* ascending by timestamp (strictly when the timestamps are all distinct),
\* and the points of one timestamp in the order they were extracted, for
\* every stored order of the snapshots, overlapping ones included.
C13_SeriesAscendingStable ==
  (resp.kind = "stats" /\ resp.outcome = "ok") =>
    LET inserted == Extract(req.metric, statValues, 1, Len(statValues))
        series == resp.series
    IN  /\ Len(series) = Len(inserted)
        /\ \A i \in 1..(Len(series) - 1) : series[i].timestamp <= series[i + 1].timestamp
        /\ Cardinality(TimesOf(inserted)) = Len(inserted) =>
             \A i \in 1..(Len(series) - 1) : series[i].timestamp < series[i + 1].timestamp
        /\ \A t \in TimesOf(inserted) : AtTime(series, t) = AtTime(inserted, t)

\* two stored snapshots whose samples overlap and share a timestamp: the
\* extracted points are not ascending, the series is, and the two points of
\* the shared timestamp are in extraction order
C13_Witness ==
  /\ resp.kind = "stats" /\ resp.outcome = "ok" /\ req.metric = "CPU_SYSTEM"
  /\ Len(statValues) = 2
  /\ Len(statValues[1].cpu_samples) = 2 /\ Len(statValues[2].cpu_samples) = 2
  /\ statValues[1].cpu_samples[1].timestamp <= statValues[2].cpu_samples[2].timestamp
  /\ statValues[2].cpu_samples[1].timestamp <= statValues[1].cpu_samples[2].timestamp
  /\ LET inserted == Extract(req.metric, statValues, 1, 2)
     IN  /\ \E i \in 1..(Len(inserted) - 1) :
              inserted[i].timestamp > inserted[i + 1].timestamp
         /\ \E i \in 1..(Len(resp.series) - 1) :
              /\ resp.series[i].timestamp = resp.series[i + 1].timestamp
              /\ resp.series[i].value # resp.series[i + 1].value
         /\ \A i \in 1..(Len(resp.series) - 1) :
              resp.series[i].timestamp <= resp.series[i + 1].timestamp

\* C14: a label request whose client_ids hold an id that cannot be converted
\* to a client URN ends in the error and changes no label store and no
\* keyword index, also for the valid clients of the batch.
C14_InvalidIdChangesNothing ==
  [][(req'.op \in {"add", "remove"} /\ req'.invalid) =>
       (resp'.outcome = "error" /\ Store' = Store /\ resp'.events = <<>>)]_vars

\* an add-labels request for a valid client followed by the empty id, on
\* stores both of which know the client: the client has none of the labels
C14_Witness ==
  /\ req.op = "add" /\ req.invalid /\ relWrite
  /\ Len(req.client_ids) = 2
  /\ req.client_ids[1] \in relKnown /\ req.client_ids[2] = EmptyId
  /\ resp.outcome = "error"
  /\ \A n \in req.labels :
       /\ [name |-> n, owner |-> req.user] \notin legacyLabels[req.client_ids[1]]
       /\ [name |-> n, owner |-> req.user] \notin relLabels[req.client_ids[1]]
       /\ n = "B" => <<LabelKeyword(n), req.client_ids[1]>> \notin legacyIndex

\* the boot time a backend holds for the client: the legacy one keeps the
\* last boot time, the relational one the boot time of the last startup and,
\* without it, that of the last interrogation
SourceBootTime(data, backend) ==
  IF backend = "relational" /\ data.startup_boot_time.present
  THEN data.startup_boot_time ELSE data.boot_time

\* C15: in a client record built with metadata, from either backend, each of
\* last-seen, last-booted, last-clock and last-crash is set exactly when the
\* source holds it, to the source's value; a stored timestamp of zero is set
\* as zero, an absent one stays unset.
C15_OptionalFieldsAsStored ==
  (resp.kind = "record" /\ req.include_metadata) =>
    /\ resp.record.last_seen_at = clientData.ping
    /\ resp.record.last_booted_at = SourceBootTime(clientData, req.backend)
    /\ resp.record.last_clock = clientData.clock
    /\ resp.record.last_crash_at = clientData.last_crash

\* C16: an ApiClientId is constructed only from a value of the identifier
\* grammar (the empty value is refused too), and ToClientURN on a
\* constructed identifier never raises.
C16_ConstructedIdsConvert ==
  /\ clientId.state = "constructed" => Matches(clientId.value)
  /\ resp.kind = "urn" => resp.outcome = "ok"

BothDone ==
  /\ procs.kind = "pair"
  /\ RemoverSteps[procs.remove.pc] = "done"
  /\ AdderSteps[procs.add.pc] = "done"

\* C17: once a remove-labels and an add-labels request of two callers for
\* the same client and a common label name have both completed, whatever the
\* interleaving of their storage steps, the relational index holds label:n
\* for the client exactly when the relational store holds a label named n.
C17_IndexIffLabelAfterBoth ==
  BothDone =>
    \A n \in Names :
      <<LabelKeyword(n), procs.client>> \in relIndex
        <=> n \in NamesOf(relLabels[procs.client])

====
